---------------------------- MODULE Spec2Model ----------------------------
(***************************************************************************)
(* Admin usage dashboard: the two chart components (UsageChart,            *)
(* SpendDistributionChart), the mock-data generators they call and the     *)
(* derived-metrics arithmetic of AdminUsagePage.                           *)
(*                                                                         *)
(* Number model.  JavaScript numbers are carried as integers:              *)
(*   - currency amounts with two decimals (toFixed(2)) are in cents;       *)
(*   - a PRNG / Math.random draw in [0,1) and the spend factor are carried *)
(*     to three decimal places (thousandths);                              *)
(*   - 32-bit words are pairs <<hi, lo>> of 16-bit halves, so that         *)
(*     Math.imul, ^, |, >>> keep their exact 32-bit wraparound;            *)
(*   - NaN and Infinity are explicit values where the code can make them.  *)
(* Strings are sequences of one-character strings; the en dash U+2013 is   *)
(* the token "ndash".                                                      *)
(***************************************************************************)
EXTENDS Integers, Sequences, FiniteSets, TLC

VARIABLES
  \* ---- a chart component instance (UsageChart or SpendDistributionChart)
  chart,               \* which component this instance is
  phase,               \* "constructed" (useState done) | "mounted" (effects ran)
  fetchProp,           \* identity of the fetch override prop, 0 = undefined
  days,                \* useState days
  view,                \* useState view (UsageChart only)
  data,                \* useState data
  loading,             \* useState loading
  loads,               \* every load() started: window, override, cancelled flag and
                       \* status: pending | committed (setData ran, no newer load)
                       \* | committedStale (setData ran, a newer load existed)
                       \* | discarded (resolved, cancelled) | rejected
  dataFrom,            \* index in loads of the load whose result is in data, 0 = none
  selectedBucket,      \* useState selectedBucket (NullString or a label)
  selectedBucketTotal, \* useState selectedBucketTotal
  selectedUsers,       \* useState selectedUsers
  selectedUser,        \* useState selectedUser
  selectedUserStats,   \* useState selectedUserStats
  \* ---- one call of a module-level / component-level function
  call,                \* the function called and its arguments
  ret,                 \* what it returned
  \* ---- PRNG closures and the history of generateUserStats calls
  gens,                \* every closure mulberry32 returned, in creation order
  calls,               \* the generateUserStats calls made: arguments and result
  \* ---- one render of AdminUsagePage
  stats,               \* what getUsageStats() returned, and now
  page                 \* the values the render derived

chartVars == <<chart, phase, fetchProp, days, view, data, loading, loads, dataFrom,
               selectedBucket, selectedBucketTotal, selectedUsers,
               selectedUser, selectedUserStats>>
fnVars   == <<call, ret>>
prngVars == <<gens, calls>>
pageVars == <<stats, page>>
vars == <<chartVars, fnVars, prngVars, pageVars>>

\* null where an object is expected, and null where a string is expected.
Null == [null |-> TRUE]
NullString == <<"null">>

Min(a, b) == IF a <= b THEN a ELSE b
Max(a, b) == IF a >= b THEN a ELSE b

\* Math.round of the non-negative rational n/d (d > 0): half rounds up.
RoundDiv(n, d) == (2 * n + d) \div (2 * d)
\* Math.ceil of the rational n/d (d > 0).
CeilDiv(n, d) == -((-n) \div d)

(***************************************************************************)
(* Strings                                                                 *)
(***************************************************************************)
DigitChars == <<"0", "1", "2", "3", "4", "5", "6", "7", "8", "9">>
IsDigit(c) == c \in {"0", "1", "2", "3", "4", "5", "6", "7", "8", "9"}
DigitVal(c) == CHOOSE v \in 0..9 : DigitChars[v + 1] = c

\* String(n) for a non-negative integer, as template literals format it.
RECURSIVE NumToString(_)
NumToString(n) ==
  IF n < 10 THEN <<DigitChars[n + 1]>>
  ELSE NumToString(n \div 10) \o <<DigitChars[(n % 10) + 1]>>

\* Number(s) for a string of decimal digits.
RECURSIVE StringToNum(_)
StringToNum(s) ==
  IF Len(s) = 0 THEN 0
  ELSE 10 * StringToNum(SubSeq(s, 1, Len(s) - 1)) + DigitVal(s[Len(s)])

\* String.prototype.charCodeAt for the characters that occur.
CharCode ==
  [c \in {"0", "1", "2", "3", "4", "5", "6", "7", "8", "9"} |-> 48 + DigitVal(c)]
  @@ ("u" :> 117) @@ ("s" :> 115) @@ ("e" :> 101) @@ ("r" :> 114)
  @@ ("@" :> 64)  @@ ("x" :> 120) @@ ("a" :> 97)  @@ ("m" :> 109)
  @@ ("p" :> 112) @@ ("l" :> 108) @@ ("." :> 46)  @@ ("c" :> 99)
  @@ ("o" :> 111) @@ ("t" :> 116) @@ (" " :> 32)  @@ ("$" :> 36)
  @@ ("-" :> 45)  @@ ("ndash" :> 8211)

(***************************************************************************)
(* 32-bit words as <<hi, lo>>                                              *)
(***************************************************************************)
Half == 65536

RECURSIVE BitXor(_, _)
BitXor(a, b) ==
  IF a = 0 THEN b
  ELSE IF b = 0 THEN a
  ELSE ((a + b) % 2) + 2 * BitXor(a \div 2, b \div 2)

RECURSIVE BitOr(_, _)
BitOr(a, b) ==
  IF a = 0 THEN b
  ELSE IF b = 0 THEN a
  ELSE Max(a % 2, b % 2) + 2 * BitOr(a \div 2, b \div 2)

RECURSIVE Pow2(_)
Pow2(n) == IF n = 0 THEN 1 ELSE 2 * Pow2(n - 1)

\* ToUint32 of a number held as <<hi, lo>> with hi unbounded.
ToUint32(w) == <<w[1] % Half, w[2]>>
\* a ^ b
Xor32(a, b) == <<BitXor(a[1], b[1]), BitXor(a[2], b[2])>>
\* a | b
Or32(a, b) == <<BitOr(a[1], b[1]), BitOr(a[2], b[2])>>
\* a >>> n, 0 < n < 16
Shr32(a, n) ==
  <<a[1] \div Pow2(n), (a[1] % Pow2(n)) * Pow2(16 - n) + a[2] \div Pow2(n)>>
\* a + b as numbers (no wraparound: hi is unbounded)
Add(a, b) ==
  <<a[1] + b[1] + (a[2] + b[2]) \div Half, (a[2] + b[2]) % Half>>
\* x * y modulo 2^16, for 16-bit x, y, without leaving 32 bits
MulMod16(x, y) == (((((x \div 256) * y) % Half) * 256) + (x % 256) * y) % Half
\* Math.imul(a, b): the low 32 bits of the product
Imul(a, b) ==
  LET p1 == (a[2] \div 256) * b[2]
      p0 == (a[2] % 256) * b[2]
      q  == (p1 % 256) * 256 + p0
      carry == q \div Half + p1 \div 256
  IN  <<(carry + MulMod16(a[1], b[2]) + MulMod16(a[2], b[1])) % Half, q % Half>>

(***************************************************************************)
(* hashStringToInt and mulberry32                                          *)
(***************************************************************************)
FnvOffsetBasis == <<33052, 40389>>   \* 2166136261 = 0x811C9DC5
FnvPrime       == <<256, 403>>       \* 16777619   = 0x01000193
MulberryInc    == <<27947, 31221>>   \* 0x6D2B79F5

RECURSIVE hashFold(_, _, _)
hashFold(input, i, hash) ==
  IF i > Len(input) THEN hash
  ELSE LET h == Imul(Xor32(hash, <<0, CharCode[input[i]]>>), FnvPrime)
       IN  IF h[1] >= 0 THEN hashFold(input, i + 1, h) ELSE h

hashStringToInt(input) == ToUint32(hashFold(input, 1, FnvOffsetBasis))

\* A closure returned by mulberry32 the model would share between callers.
mulberry32Shared(seed) ==
  IF Len(gens) > 0 THEN [seed |-> seed, t |-> gens[Len(gens)].g.t, k |-> 0]
  ELSE [seed |-> seed, t |-> ToUint32(seed), k |-> 0]

\* mulberry32(seed): a fresh closure whose captured t is seed >>> 0.
mulberry32(seed) == [seed |-> seed, t |-> ToUint32(seed), k |-> 0]

\* One call of a closure that returns (r ^ (r >>> 14)) / 4294967296 without
\* the >>> 0: the numerator is a signed 32-bit integer.
prngStepSigned(g) ==
  LET t  == Add(g.t, MulberryInc)
      ti == ToUint32(t)
      r1 == Imul(Xor32(ti, Shr32(ti, 15)), Or32(<<0, 1>>, ti))
      r2 == Xor32(r1, ToUint32(Add(r1, Imul(Xor32(r1, Shr32(r1, 7)),
                                             Or32(<<0, 61>>, r1)))))
      w  == Xor32(r2, Shr32(r2, 14))
  IN  [gen |-> [g EXCEPT !.t = t, !.k = @ + 1],
       word |-> IF w[1] >= Half \div 2 THEN <<w[1] - Half, w[2]>> ELSE w]

\* One call of the closure: the new t and the 32-bit numerator of the value.
prngStep(g) ==
  LET t  == Add(g.t, MulberryInc)
      ti == ToUint32(t)
      r1 == Imul(Xor32(ti, Shr32(ti, 15)), Or32(<<0, 1>>, ti))
      r2 == Xor32(r1, ToUint32(Add(r1, Imul(Xor32(r1, Shr32(r1, 7)),
                                             Or32(<<0, 61>>, r1)))))
  IN  [gen |-> [g EXCEPT !.t = t, !.k = @ + 1],
       word |-> Xor32(r2, Shr32(r2, 14))]

\* word / 4294967296, to three decimal places.
Thousandths(word) == (word[1] * 1000 + (word[2] * 1000) \div Half) \div Half

\* The first n values of a closure (their numerators, and the values in
\* thousandths), and the closure after.
RECURSIVE prngDraws(_, _)
prngDraws(g, n) ==
  IF n = 0 THEN [gen |-> g, vals |-> <<>>, words |-> <<>>]
  ELSE LET s == prngStep(g)
           rest == prngDraws(s.gen, n - 1)
       IN  [gen |-> rest.gen, vals |-> <<Thousandths(s.word)>> \o rest.vals,
            words |-> <<s.word>> \o rest.words]

(***************************************************************************)
(* Math.random: a tape of draws in thousandths.  Call number n (from 0)    *)
(* of one function invocation reads (a + b*n) mod 1000.                    *)
(***************************************************************************)
TapeStarts == {0, 499, 999}
TapeSteps  == {0, 1, 377}
RandomTapes == [a : TapeStarts, b : TapeSteps]
MathRandom(tape, n) == (tape.a + tape.b * n) % 1000

(***************************************************************************)
(* SpendDistributionChart.tsx: bucket labels and the mock distribution     *)
(***************************************************************************)
BucketStep == 20
BucketMax  == 1000
MaxShown   == 50

\* The label pushed for one start value (lines 37-38).
labelOf(start, step) ==
  <<"$">> \o NumToString(start) \o <<"ndash">> \o NumToString(start + step)

\* The loop run while start + step < max: the last range is left out.
buildBucketLabelsShort(step, max) ==
  [i \in 1..(CeilDiv(max, step) - 1) |-> labelOf((i - 1) * step, step)]

\* for (start = 0; start < max; start += step): ceil(max / step) iterations.
buildBucketLabels(step, max) ==
  [i \in 1..CeilDiv(max, step) |-> labelOf((i - 1) * step, step)]

\* Math.exp(-mid / 250) * 10000 for mid = 10, 30, ..., 990.
ExpDecay ==
  << 9608, 8869, 8187, 7558, 6977, 6440, 5945, 5488, 5066, 4677,
     4317, 3985, 3679, 3396, 3135, 2894, 2671, 2466, 2276, 2101,
     1940, 1791, 1653, 1526, 1409, 1300, 1200, 1108, 1023, 944,
     872, 805, 743, 686, 633, 584, 539, 498, 460, 424,
     392, 362, 334, 308, 284, 263, 242, 224, 207, 191 >>

\* users of the bucket at 0-based idx: mean, noise and value of lines 54-58,
\* in thousandths.  450 * e * (0.6 + (d/30) * 0.7) = 3 * e * (180 + 7d) / 2.
bucketUsers(d, idx, rand) ==
  LET mean  == (3 * ExpDecay[idx + 1] * (180 + 7 * d)) \div 20
      noise == ((rand - 500) * Max(6000, (mean * 8) \div 100)) \div 1000
  IN  Max(0, RoundDiv(mean + noise, 1000))

generateMockDistribution(d, tape) ==
  LET labels == buildBucketLabels(BucketStep, BucketMax)
  IN  [i \in 1..Len(labels) |->
         [bucket |-> labels[i],
          users  |-> bucketUsers(d, i - 1, MathRandom(tape, i - 1))]]

(***************************************************************************)
(* parseBucket: label.match(/\$(\d+)[ndash-](\d+)/)                        *)
(***************************************************************************)
\* The index after the longest run of digits that starts at i.
RECURSIVE digitsEnd(_, _)
digitsEnd(s, i) ==
  IF i <= Len(s) /\ IsDigit(s[i]) THEN digitsEnd(s, i + 1) ELSE i

\* The pattern matches with its "$" at index i.
matchesAt(s, i) ==
  /\ s[i] = "$"
  /\ LET j == digitsEnd(s, i + 1)
     IN  /\ j > i + 1
         /\ j <= Len(s)
         /\ s[j] \in {"ndash", "-"}
         /\ digitsEnd(s, j + 1) > j + 1

parseBucket(label) ==
  LET starts == {i \in 1..Len(label) : matchesAt(label, i)}
  IN  IF starts = {} THEN Null
      ELSE LET i == CHOOSE m \in starts : \A n \in starts : m <= n
               j == digitsEnd(label, i + 1)
           IN  [min |-> StringToNum(SubSeq(label, i + 1, j - 1)),
                max |-> StringToNum(SubSeq(label, j + 1, digitsEnd(label, j + 1) - 1))]

(***************************************************************************)
(* generateUsersForBucket                                                  *)
(***************************************************************************)
EmailOf(n) ==
  <<"u", "s", "e", "r">> \o NumToString(n)
  \o <<"@", "e", "x", "a", "m", "p", "l", "e", ".", "c", "o", "m">>

\* Array.prototype.sort((a, b) => b.spend - a.spend): stable, descending.
\* An element lands after every element of larger spend and after the
\* earlier elements of equal spend.
placeBySpendDesc(users) ==
  [i \in 1..Len(users) |->
     1 + Cardinality({j \in 1..Len(users) :
           \/ users[j].spend > users[i].spend
           \/ (users[j].spend = users[i].spend /\ j < i)})]

sortBySpendDesc(unsorted) ==
  CHOOSE sorted \in
    {[k \in 1..Len(users) |-> users[CHOOSE i \in 1..Len(users) : place[i] = k]] :
       <<users, place>> \in {<<u, placeBySpendDesc(u)>> : u \in {unsorted}}} : TRUE

\* The number of rows without the cap of 50.
toShowUncapped(totalUsers) == Max(1, totalUsers)

toShow(totalUsers) == Min(MaxShown, Max(1, totalUsers))

\* The i-th (0-based) user pushed by the loop of lines 134-138; spend in cents.
syntheticUser(range, i, tape) ==
  [email |-> EmailOf(100000 + MathRandom(tape, 2 * i + 1) * 900),
   spend |-> range.min * 100
             + RoundDiv(MathRandom(tape, 2 * i) * (range.max - range.min), 10)]

\* The function without its early return: destructuring null throws.
generateUsersForBucketUnguarded(label, totalUsers, tape) ==
  LET range == parseBucket(label)
  IN  IF range = Null THEN [threw |-> TRUE, value |-> <<>>]
      ELSE [threw |-> FALSE,
            value |-> sortBySpendDesc([i \in 1..toShow(totalUsers) |->
                                         syntheticUser(range, i - 1, tape)])]

generateUsersForBucket(label, totalUsers, tape) ==
  LET range == parseBucket(label)
  IN  IF range = Null THEN [threw |-> FALSE, value |-> <<>>]
      ELSE [threw |-> FALSE,
            value |-> sortBySpendDesc([i \in 1..toShow(totalUsers) |->
                                         syntheticUser(range, i - 1, tape)])]

(***************************************************************************)
(* generateUserStats.  sf and the draws p are in thousandths.              *)
(***************************************************************************)
\* JavaScript truthiness of a string | null.
Truthy(str) == str # NullString /\ Len(str) > 0

\* lines 172-174; spend in cents.
spendFactor(spend, bucketLabel) ==
  LET range == IF Truthy(bucketLabel) THEN parseBucket(bucketLabel) ELSE Null
      maxBench == IF range # Null THEN range.max ELSE 1000
  IN  Min(1000, Max(50, (spend * 10) \div Max(1, maxBench)))

\* lines 178-179
agentRequestsOf(sf, p) ==
  Max(1, RoundDiv((100 + sf * 4) * (8000 + 4 * p), 10000))

\* lines 181-182
linesGeneratedOf(agentRequests, sf, p) ==
  LET linesGeneratedBase == agentRequests * (8000 + 12 * p)
  IN  ((linesGeneratedBase \div 100) * ((9000 + 6 * sf) \div 10) + 5000) \div 10000

\* line 183, in thousandths
acceptanceRateOf(sf, p) == (45000 + 40 * sf + 6 * (p - 500)) \div 100

\* The accepted count taken as the rejected remainder, unclamped.
linesAcceptedOfRemainder(linesGenerated, acceptanceRate) ==
  RoundDiv(linesGenerated * acceptanceRate, 1000) - linesGenerated

\* line 184
linesAcceptedOf(linesGenerated, acceptanceRate) ==
  Min(linesGenerated, Max(0, RoundDiv(linesGenerated * acceptanceRate, 1000)))

\* line 186
tabCompletionsAcceptedOf(sf, p) ==
  Max(0, RoundDiv((200 + sf * 6) * (7000 + 6 * p), 10000))

Models == <<"gpt-5", "claude-4-sonnet", "claude-4-opus", "auto">>

\* lines 188-191: wGpt5, wSonnet, wOpus, wAuto in units of 1/10000.
modelWeights(sf, p4, p5, p6, p7) ==
  << 10000 + 6 * p4 + 12 * (1000 - sf),
     10000 + 6 * p5 + 8 * sf,
     10000 + 6 * p6 + 28 * sf,
     8000 + 6 * p7 + 6 * (1000 - sf) >>

\* The share taken per mille: Math.round((w / sum) * 1000).
toPctPerMille(w, sum) == RoundDiv(w * 1000, sum)

\* line 193
toPct(w, sum) == RoundDiv(w * 100, sum)

SumPercent(modelUsage) ==
  modelUsage[1].percent + modelUsage[2].percent
  + modelUsage[3].percent + modelUsage[4].percent

\* The index lines 203-204 find: the largest percent, the first one on ties.
RECURSIVE largestIdx(_, _, _)
largestIdx(modelUsage, i, idx) ==
  IF i > Len(modelUsage) THEN idx
  ELSE largestIdx(modelUsage, i + 1,
                  IF modelUsage[i].percent > modelUsage[idx].percent THEN i ELSE idx)

\* The rounded shares returned as they are.
correctDriftSkipped(modelUsage) == modelUsage

\* lines 200-206
correctDrift(modelUsage) ==
  LET diff == 100 - SumPercent(modelUsage)
      idx  == largestIdx(modelUsage, 2, 1)
  IN  IF diff # 0
      THEN [modelUsage EXCEPT ![idx].percent = @ + diff]
      ELSE modelUsage

\* lines 192-199: the rounded shares before the correction.
roundedShares(w) ==
  LET sum == w[1] + w[2] + w[3] + w[4]
  IN  [i \in 1..4 |-> [model |-> Models[i], percent |-> toPct(w[i], sum)]]

\* lines 178-214, given the spend factor and the eight values of the closure.
userStatsFrom(sf, p) ==
  LET agentRequests  == agentRequestsOf(sf, p[1])
      linesGenerated == linesGeneratedOf(agentRequests, sf, p[2])
  IN  [agentRequests          |-> agentRequests,
       linesGenerated         |-> linesGenerated,
       linesAccepted          |-> linesAcceptedOf(linesGenerated, acceptanceRateOf(sf, p[3])),
       tabCompletionsAccepted |-> tabCompletionsAcceptedOf(sf, p[4]),
       modelUsage |-> correctDrift(roundedShares(modelWeights(sf, p[5], p[6], p[7], p[8])))]

\* Number of values generateUserStats takes from its closure (lines 179-191).
DrawsPerUser == 8

\* lines 171-215: the result, and the closure it created and used.
generateUserStats(email, spend, bucketLabel) ==
  LET prng == prngDraws(mulberry32(hashStringToInt(email)), DrawsPerUser)
  IN  [out |-> userStatsFrom(spendFactor(spend, bucketLabel), prng.vals),
       gen |-> prng.gen, words |-> prng.words]

\* lines 338 and 341: the acceptance ratio shown in the detail card, percent.
acceptancePercent(userStats) ==
  RoundDiv(userStats.linesAccepted * 100, Max(1, userStats.linesGenerated))

(***************************************************************************)
(* Inputs                                                                  *)
(***************************************************************************)
Label2040      == <<"$", "2", "0", "ndash", "4", "0">>
Label2040h     == <<"$", "2", "0", "-", "4", "0">>
LabelTo        == <<"2", "0", " ", "t", "o", " ", "4", "0">>
LabelNoDollar  == <<"2", "0", "-", "4", "0">>
LabelOpen      == <<"$", "2", "0", "ndash">>
LabelZero      == <<"$", "0", "-", "0">>
LabelInner     == <<"x", "$", "5", "-", "7", "a">>
LabelLast      == <<"$", "9", "8", "0", "ndash", "1", "0", "0", "0">>
LabelEmpty     == <<>>

Labels == {Label2040, Label2040h, LabelTo, LabelNoDollar, LabelOpen,
           LabelZero, LabelInner, LabelLast, LabelEmpty}

Windows     == {1, 7, 14, 30, 60, 90}
TotalUsers  == {0, 1, 2, 49, 50, 51, 120}
EmailNumbers == {100000, 100900, 439300, 549100, 999100}
Emails      == {EmailOf(n) : n \in EmailNumbers}
SpendsCents == {0, 1, 100, 1999, 2000, 2789, 3333, 3999, 4000, 30000, 33000, 100000}
StatsLabels == {NullString, Label2040, LabelTo, LabelLast, LabelZero}

(***************************************************************************)
(* UsageChart: generateMockData                                             *)
(***************************************************************************)
\* Math.sin(i / 3) * 40, Math.cos(i / 4) * 25, Math.sin(i / 5) * 15 and
\* Math.cos(i / 6) * 20 for i = 0..89, in thousandths.
SinGpt5 ==
  << 0, 13088, 24735, 33659, 38878, 39816, 36372, 28923, 18291, 5645,
     -7623, -20051, -30272, -37161, -39958, -38357, -32533, -23128, -11177, 2005,
     14966, 26279, 34700, 39300, 39574, 35492, 27502, 16485, 3653, -9581,
     -21761, -31545, -37856, -40000, -37740, -31326, -21463, -9237, 4005, 16807,
     27758, 35654, 39624, 39233, 34522, 26012, 14637, 1651, -11516, -23416,
     -32738, -38456, -39940, -37028, -30039, -19744, -7275, 5995, 18605, 29167,
     36518, 39849, 38793, 33466, 24456, 12753, -354, -13422, -25012, -33849,
     -38959, -39781, -36223, -28678, -17975, -5294, 7970, 20357, 30502, 37290,
     39973, 38255, 32326, 22838, 10836, -2359, -15294, -26545, -34875, -39365 >>
CosSonnet ==
  << 25000, 24223, 21940, 18292, 13508, 7883, 1768, -4456, -10404, -15704,
     -20029, -23108, -24750, -24853, -23411, -20514, -16341, -11152, -5270, 940,
     7092, 12802, 17717, 21530, 24004, 24986, 24415, 22325, 18848, 14198,
     8666, 2595, -3638, -9644, -15050, -19521, -22778, -24619, -24929, -23689,
     -20977, -16960, -11888, -6078, 111, 6292, 12083, 17122, 21096, 23759,
     24945, 24580, 22686, 19382, 14873, 9439, 3418, -2815, -8873, -14380,
     -18992, -22424, -24461, -24978, -23941, -21416, -17560, -12612, -6879, -719,
     5486, 11350, 16508, 20640, 23488, 24876, 24718, 23022, 19895, 15532,
     10202, 4238, -1989, -8093, -13693, -18442, -22045, -24277, -24999, -24167 >>
SinOpus ==
  << 0, 2980, 5841, 8470, 10760, 12622, 13981, 14782, 14994, 14608,
     13639, 12127, 10132, 7733, 5025, 2117, -876, -3833, -6638, -9178,
     -11352, -13074, -14274, -14905, -14942, -14384, -13252, -11591, -9469, -6969,
     -4191, -1246, 1748, 4673, 7412, 9855, 11905, 13481, 14519, 14978,
     14840, 14111, 12819, 11016, 8774, 6182, 3343, 372, -2615, -5497,
     -8160, -10498, -12417, -13842, -14714, -15000, -14688, -13790, -12342, -10403,
     -8049, -5373, -2484, 504, 3473, 6303, 8881, 11106, 12887, 14155,
     14859, 14970, 14485, 13422, 11824, 9754, 7296, 4547, 1616, -1379,
     -4319, -7086, -9572, -11675, -13314, -14421, -14954, -14890, -14233, -13008 >>
CosAuto ==
  << 20000, 19723, 18899, 17552, 15718, 13448, 10806, 7864, 4705, 1415,
     -1914, -5191, -8323, -11225, -13815, -16023, -17787, -19057, -19800, -19994,
     -19633, -18729, -17306, -15403, -13073, -10381, -7401, -4216, -914, 2413,
     5673, 8776, 11636, 14173, 16318, 18010, 19203, 19864, 19975, 19532,
     18547, 17049, 15078, 12689, 9949, 6933, 3724, 413, -2910, -6152,
     -9224, -12040, -14523, -16603, -18223, -19337, -19916, -19943, -19418, -18354,
     -16781, -14744, -12298, -9511, -6460, -3231, 89, 3405, 6627, 9666,
     12437, 14863, 16877, 18424, 19459, 19956, 19899, 19292, 18149, 16503,
     14400, 11898, 9067, 5984, 2735, -590, -3898, -7098, -10102, -12826 >>

\* One channel of lines 44-47: Math.max(0, Math.round(base + wave + noise)) * 10,
\* wave in thousandths, noise = (Math.random() - 0.5) * spread.
channel(base, wave, spread, rand) ==
  Max(0, RoundDiv(base * 1000 + wave + (rand - 500) * spread, 1000)) * 10

\* The clock and time zone of the browser: the local hour of new Date(), the
\* UTC offset in force on the local days less than changedDaysAgo before
\* today, and the offset in force on the earlier days (a daylight-saving
\* change lies between them when they differ).
UtcNoon       == [hour |-> 12, offsetNow |-> 0, offsetBefore |-> 0, changedDaysAgo |-> 0]
SpringForward == [hour |-> 0, offsetNow |-> 1, offsetBefore |-> 0, changedDaysAgo |-> 1]
WestEvening   == [hour |-> 20, offsetNow |-> -8, offsetBefore |-> -7, changedDaysAgo |-> 3]
Zones == {UtcNoon, SpringForward, WestEvening}

\* lines 41-43: the local day today - i at the local hour of now, converted
\* to UTC by toISOString(); slice(0, 10) keeps the UTC day.
isoDateOf(today, i, zone) ==
  LET offset == IF i < zone.changedDaysAgo THEN zone.offsetNow ELSE zone.offsetBefore
  IN  ((today - i) * 24 + zone.hour - offset) \div 24

\* The point pushed for day offset i, the n-th (0-based) iteration of the
\* loop.  The sum of four multiples of 10 is unchanged by
\* Number(x.toFixed(2)).
usagePoint(i, n, today, zone, tape) ==
  LET gpt5         == channel(200, SinGpt5[i + 1], 30, MathRandom(tape, 4 * n))
      claudeSonnet == channel(120, CosSonnet[i + 1], 20, MathRandom(tape, 4 * n + 1))
      claudeOpus   == channel(80, SinOpus[i + 1], 15, MathRandom(tape, 4 * n + 2))
      auto         == channel(60, CosAuto[i + 1], 12, MathRandom(tape, 4 * n + 3))
  IN  [date |-> isoDateOf(today, i, zone),
       total |-> gpt5 + claudeSonnet + claudeOpus + auto,
       gpt5 |-> gpt5, claudeSonnet |-> claudeSonnet,
       claudeOpus |-> claudeOpus, auto |-> auto]

\* The loop run from i = 0 up to days - 1: today is pushed first.
generateMockDataNewestFirst(d, today, zone, tape) ==
  [n \in 1..d |-> usagePoint(n - 1, n - 1, today, zone, tape)]

\* for (let i = days - 1; i >= 0; i--)
generateMockData(d, today, zone, tape) ==
  [n \in 1..d |-> usagePoint(d - n, n - 1, today, zone, tape)]

\* new Date() of line 39: the local day number of today.
Today == 20000

(***************************************************************************)
(* SpecLib: one call of a function at a time                               *)
(***************************************************************************)
Idle == [fn |-> "idle"]

InitOthersChart ==
  /\ chart = "none" /\ phase = "constructed" /\ fetchProp = 0 /\ days = 0
  /\ view = "models"
  /\ data = <<>> /\ loading = FALSE /\ loads = <<>> /\ dataFrom = 0
  /\ selectedBucket = NullString /\ selectedBucketTotal = 0
  /\ selectedUsers = <<>> /\ selectedUser = Null /\ selectedUserStats = Null
InitOthersFn   == call = Idle /\ ret = Null
InitOthersPrng == gens = <<>> /\ calls = <<>>
InitOthersPage == stats = Null /\ page = Null

InitLib == InitOthersChart /\ InitOthersFn /\ InitOthersPrng /\ InitOthersPage

CallGenerateMockDistribution ==
  /\ call = Idle
  /\ \E d \in Windows, tape \in RandomTapes :
       /\ call' = [fn |-> "generateMockDistribution", days |-> d, tape |-> tape]
       /\ ret' = [value |-> generateMockDistribution(d, tape)]
  /\ UNCHANGED <<chartVars, prngVars, pageVars>>

CallParseBucket ==
  /\ call = Idle
  /\ \E label \in Labels :
       /\ call' = [fn |-> "parseBucket", label |-> label]
       /\ ret' = [value |-> parseBucket(label)]
  /\ UNCHANGED <<chartVars, prngVars, pageVars>>

CallGenerateUsersForBucket ==
  /\ call = Idle
  /\ \E label \in Labels, totalUsers \in TotalUsers, tape \in RandomTapes :
       /\ call' = [fn |-> "generateUsersForBucket", label |-> label,
                   totalUsers |-> totalUsers, tape |-> tape]
       /\ ret' = generateUsersForBucket(label, totalUsers, tape)
  /\ UNCHANGED <<chartVars, prngVars, pageVars>>

\* The closure the call creates is local to it and unreachable on return.
CallGenerateUserStats ==
  /\ call = Idle
  /\ \E email \in Emails, spend \in SpendsCents, label \in StatsLabels :
       /\ call' = [fn |-> "generateUserStats", email |-> email,
                   spend |-> spend, bucketLabel |-> label]
       /\ ret' = [value |-> generateUserStats(email, spend, label).out]
  /\ UNCHANGED <<chartVars, prngVars, pageVars>>

CallGenerateMockData ==
  /\ call = Idle
  /\ \E d \in Windows, zone \in Zones, tape \in RandomTapes :
       /\ call' = [fn |-> "generateMockData", days |-> d, today |-> Today,
                   zone |-> zone, tape |-> tape]
       /\ ret' = [value |-> generateMockData(d, Today, zone, tape)]
  /\ UNCHANGED <<chartVars, prngVars, pageVars>>

Return ==
  /\ call # Idle
  /\ call' = Idle
  /\ ret' = Null
  /\ UNCHANGED <<chartVars, prngVars, pageVars>>

NextLib ==
  \/ CallGenerateMockDistribution
  \/ CallParseBucket
  \/ CallGenerateUsersForBucket
  \/ CallGenerateUserStats
  \/ CallGenerateMockData
  \/ Return

SpecLib == InitLib /\ [][NextLib]_vars

(***************************************************************************)
(* Properties of single calls (SpecLib)                                    *)
(***************************************************************************)
\* The rounded shares generateUserStats starts from, recomputed from the
\* arguments of the call in progress.
CallRawShares ==
  LET p == prngDraws(mulberry32(hashStringToInt(call.email)), DrawsPerUser).vals
  IN  roundedShares(modelWeights(spendFactor(call.spend, call.bucketLabel),
                                 p[5], p[6], p[7], p[8]))

\* The first index holding the largest percent.
FirstLargest(shares) ==
  CHOOSE i \in 1..4 :
    /\ \A j \in 1..4 : shares[j].percent <= shares[i].percent
    /\ \A j \in 1..(i - 1) : shares[j].percent < shares[i].percent

\* C2: the four modelUsage percentages returned by generateUserStats sum to
\* exactly 100, the residual 100 - total of the rounded shares having been
\* added to the entry with the largest percent (the first one on ties).
C2_PercentSum100 ==
  call.fn = "generateUserStats" =>
    LET raw == CallRawShares
        big == FirstLargest(raw)
        mu  == ret.value.modelUsage
    IN  /\ Len(mu) = 4
        /\ SumPercent(mu) = 100
        /\ \A i \in 1..4 :
             /\ mu[i].model = Models[i]
             /\ mu[i].percent = raw[i].percent
                  + (IF i = big THEN 100 - SumPercent(raw) ELSE 0)

\* A call whose rounded shares do not sum to 100, and whose largest share is
\* held by two models, has returned.
C2_Witness ==
  /\ call.fn = "generateUserStats"
  /\ SumPercent(CallRawShares) # 100
  /\ \E i \in 1..4 : i # FirstLargest(CallRawShares)
       /\ CallRawShares[i].percent = CallRawShares[FirstLargest(CallRawShares)].percent
  /\ SumPercent(ret.value.modelUsage) = 100

\* C4: every result of generateUserStats has 0 <= linesAccepted <= linesGenerated.
C4_AcceptedWithinGenerated ==
  call.fn = "generateUserStats" =>
    /\ 0 <= ret.value.linesAccepted
    /\ ret.value.linesAccepted <= ret.value.linesGenerated

\* A call has returned with some, but not all, generated lines accepted.
C4_Witness ==
  /\ call.fn = "generateUserStats"
  /\ 0 < ret.value.linesAccepted
  /\ ret.value.linesAccepted < ret.value.linesGenerated

\* C7: for every window, generateMockDistribution returns exactly 50 data,
\* the i-th labelled "$20i-20(i+1)" (en dash), so that the labels ascend by
\* range start and partition [0,1000) into width-20 ranges without gap or
\* overlap, whatever the window.
C7_BucketsPartition ==
  call.fn = "generateMockDistribution" =>
    LET rows == ret.value
    IN  /\ Len(rows) = 50
        /\ \A i \in 1..Len(rows) :
             /\ rows[i].bucket = <<"$">> \o NumToString(20 * (i - 1))
                                  \o <<"ndash">> \o NumToString(20 * i)
             /\ parseBucket(rows[i].bucket) = [min |-> 20 * (i - 1), max |-> 20 * i]
        /\ parseBucket(rows[1].bucket).min = 0
        /\ parseBucket(rows[Len(rows)].bucket).max = 1000
        /\ \A i \in 1..(Len(rows) - 1) :
             parseBucket(rows[i].bucket).max = parseBucket(rows[i + 1].bucket).min

\* The distribution of the 7-day window has been generated.
C7_Witness ==
  /\ call.fn = "generateMockDistribution"
  /\ call.days = 7
  /\ Len(ret.value) = 50
  /\ ret.value[50].bucket = LabelLast

\* C8: generateUsersForBucket returns at most 50 users, ordered by
\* non-increasing spend, however large the bucket's total is.
C8_AtMost50Descending ==
  call.fn = "generateUsersForBucket" =>
    /\ Len(ret.value) <= 50
    /\ \A i \in 1..(Len(ret.value) - 1) :
         ret.value[i].spend >= ret.value[i + 1].spend

\* A bucket of more than 50 users has been drilled into, with distinct spends.
C8_Witness ==
  /\ call.fn = "generateUsersForBucket"
  /\ call.totalUsers > 50
  /\ Len(ret.value) = 50
  /\ ret.value[1].spend > ret.value[50].spend

\* Labels that fail the range pattern.
MalformedLabels == {LabelTo, LabelNoDollar, LabelOpen, LabelEmpty}

\* C9: a label that fails the range pattern parses to no range and its
\* drill-down yields an empty user list, not an exception; "$20-40" with a
\* hyphen or an en dash parses to {min: 20, max: 40}.
C9_MalformedLabelEmpty ==
  /\ call.fn = "parseBucket" =>
       /\ call.label \in MalformedLabels => ret.value = Null
       /\ call.label \in {Label2040, Label2040h} => ret.value = [min |-> 20, max |-> 40]
  /\ (call.fn = "generateUsersForBucket" /\ call.label \in MalformedLabels) =>
       /\ ~ret.threw
       /\ ret.value = <<>>

\* The drill-down on "20 to 40" has returned.
C9_Witness ==
  /\ call.fn = "generateUsersForBucket"
  /\ call.label = LabelTo
  /\ call.totalUsers > 0
  /\ ret.value = <<>>

\* C13: for every positive window, generateMockData returns exactly
\* `window` points in chronological order, the oldest day offset first and
\* today last (the n-th point is the one of day offset window - n, and the
\* dates never decrease), and each point's total is the sum of its four
\* per-model values.
C13_MockDataChronological ==
  call.fn = "generateMockData" =>
    LET points == ret.value
        n == call.days
    IN  /\ Len(points) = n
        /\ \A k \in 1..n :
             /\ points[k].date = isoDateOf(call.today, n - k, call.zone)
             /\ points[k].total = points[k].gpt5 + points[k].claudeSonnet
                                   + points[k].claudeOpus + points[k].auto
        /\ \A k \in 1..(n - 1) : points[k].date <= points[k + 1].date
        /\ points[n].date = isoDateOf(call.today, 0, call.zone)

\* The 90-day series has been generated, with noise in every channel.
C13_Witness ==
  /\ call.fn = "generateMockData"
  /\ call.days = 90
  /\ Len(ret.value) = 90
  /\ ret.value[1].date < ret.value[90].date
  /\ ret.value[90].total > 0
  /\ ret.value[1].gpt5 # ret.value[90].gpt5

\* C14: the numbers shown are within sane ranges: every modelUsage percent
\* generateUserStats returns (after the residual correction) is in [0,100],
\* agentRequests and tabCompletionsAccepted are >= 0, and every bucket's
\* users count from generateMockDistribution is >= 0.
C14_DisplayedNumbersSane ==
  /\ call.fn = "generateUserStats" =>
       /\ \A i \in 1..Len(ret.value.modelUsage) :
            /\ 0 <= ret.value.modelUsage[i].percent
            /\ ret.value.modelUsage[i].percent <= 100
       /\ ret.value.agentRequests >= 0
       /\ ret.value.tabCompletionsAccepted >= 0
  /\ call.fn = "generateMockDistribution" =>
       \A i \in 1..Len(ret.value) : ret.value[i].users >= 0

\* generateUserStats has returned for the smallest spend factor, the rounded
\* shares having summed to more than 100 and the largest one lowered.
C14_Witness ==
  /\ call.fn = "generateUserStats"
  /\ call.spend = 0
  /\ SumPercent(CallRawShares) > 100
  /\ \E i \in 1..4 : ret.value.modelUsage[i].percent < CallRawShares[i].percent
  /\ ret.value.agentRequests > 0

(***************************************************************************)
(* SpecPrng: repeated generateUserStats calls among other users of the PRNG *)
(***************************************************************************)
MaxCalls == 2     \* generateUserStats calls
MaxGens  == 1     \* closures created by other callers of mulberry32
MaxDraws == 1     \* values another caller takes from its closure

PrngEmails == {EmailOf(100000), EmailOf(100900)}
PrngSpends == {3333}
PrngLabels == {NullString, Label2040}
PrngSeeds  == {hashStringToInt(EmailOf(100000)), <<65535, 65535>>}

InitPrng == InitOthersChart /\ InitOthersFn /\ InitOthersPrng /\ InitOthersPage

\* generateUserStats(email, spend, bucketLabel): creates a closure, takes its
\* first eight values, returns the stats.
UserStatsCall ==
  /\ Len(calls) < MaxCalls
  /\ \E email \in PrngEmails, spend \in PrngSpends, label \in PrngLabels :
       \E r \in {generateUserStats(email, spend, label)} :
           /\ calls' = Append(calls, [email |-> email, spend |-> spend,
                                      bucketLabel |-> label, out |-> r.out])
           /\ gens' = Append(gens, [owner |-> "generateUserStats", g |-> r.gen,
                                    out |-> r.words])
  /\ UNCHANGED <<chartVars, fnVars, pageVars>>

\* Another caller creates a closure: mulberry32(seed).
NewGenerator ==
  /\ Cardinality({i \in 1..Len(gens) : gens[i].owner = "caller"}) < MaxGens
  /\ \E seed \in PrngSeeds :
       gens' = Append(gens, [owner |-> "caller", g |-> mulberry32(seed),
                             out |-> <<>>])
  /\ UNCHANGED <<calls, chartVars, fnVars, pageVars>>

\* Another caller calls its closure once.
NextValue ==
  /\ \E i \in 1..Len(gens) :
       /\ gens[i].owner = "caller"
       /\ gens[i].g.k < MaxDraws
       /\ LET s == prngStep(gens[i].g)
          IN  gens' = [gens EXCEPT ![i] = [owner |-> "caller", g |-> s.gen,
                                           out |-> Append(@.out, s.word)]]
  /\ UNCHANGED <<calls, chartVars, fnVars, pageVars>>

NextPrng == UserStatsCall \/ NewGenerator \/ NextValue

SpecPrng == InitPrng /\ [][NextPrng]_vars

RECURSIVE wrappedState(_, _)
wrappedState(seed, k) ==
  IF k = 0 THEN ToUint32(seed)
  ELSE ToUint32(Add(wrappedState(seed, k - 1), MulberryInc))

Num(v)   == [kind |-> "num", v |-> v]
NaN      == [kind |-> "NaN", v |-> 0]
Infinity == [kind |-> "Infinity", v |-> 0]

\* Math.min(c, x) and Math.max(c, x) for a finite c and a non-negative x.
MathMin(c, x) ==
  IF x.kind = "NaN" THEN NaN
  ELSE IF x.kind = "Infinity" THEN Num(c)
  ELSE Num(Min(c, x.v))
MathMax(c, x) ==
  IF x.kind = "NaN" THEN NaN
  ELSE IF x.kind = "Infinity" THEN Infinity
  ELSE Num(Max(c, x.v))

\* Math.round((a / b) * 100) for a, b >= 0: x/0 is Infinity, 0/0 is NaN.
roundedPercentOf(a, b) ==
  IF b # 0 THEN Num(RoundDiv(a * 100, b))
  ELSE IF a = 0 THEN NaN
  ELSE Infinity

\* line 113
remainingPercentOf(remainingPool, totalPool) ==
  MathMax(0, MathMin(100, roundedPercentOf(remainingPool, totalPool)))

msPerDay == 24    \* line 118, in hours

\* line 119
daysUntilRenewalOf(renewsOn, now) == Max(0, CeilDiv(renewsOn - now, msPerDay))

\* The quotient rounded down.
daysUntilRunOutFloor(remainingPool, averageDailySpend) ==
  IF averageDailySpend > 0
  THEN Num(remainingPool \div averageDailySpend)
  ELSE Infinity

\* line 121
daysUntilRunOutOf(remainingPool, averageDailySpend) ==
  IF averageDailySpend > 0
  THEN Num(CeilDiv(remainingPool, averageDailySpend))
  ELSE Infinity

\* lines 122-124: isFinite(daysUntilRunOut) ? new Date(...) : null
projectedRunOutDateOf(daysUntilRunOut, now) ==
  IF daysUntilRunOut.kind = "num"
  THEN [time |-> now + daysUntilRunOut.v * msPerDay]
  ELSE Null

\* lines 127-128
projectedOverageSpendOf(averageDailySpend, daysUntilRenewal, remainingPool) ==
  Max(0, averageDailySpend * daysUntilRenewal - remainingPool)

\* ---- Date: the local calendar behind getFullYear / setFullYear / getMonth /
\* setMonth.  A Date is its time value in hours.
EpochYear == 2024
CalendarYears == (EpochYear - 2)..(EpochYear + 3)

IsLeap(y) == (y % 4 = 0 /\ y % 100 # 0) \/ y % 400 = 0
LeapsBefore(y) == (y - 1) \div 4 - (y - 1) \div 100 + (y - 1) \div 400
\* Days from the epoch to 1 January of year y.
DaysBeforeYear(y) ==
  365 * (y - EpochYear) + LeapsBefore(y) - LeapsBefore(EpochYear)
MonthStarts == <<0, 31, 59, 90, 120, 151, 181, 212, 243, 273, 304, 334, 365>>
\* Days from 1 January of year y to the first of 0-based month m (m = 12: to
\* the next 1 January).
DaysBeforeMonth(y, m) ==
  MonthStarts[m + 1] + (IF m >= 2 /\ IsLeap(y) THEN 1 ELSE 0)

\* MakeDay(year, month, date) of ECMAScript: month may exceed 11 and date may
\* exceed the length of the month; both carry.
MakeDay(y, m, d) ==
  LET ym == y + m \div 12
      mn == m % 12
  IN  DaysBeforeYear(ym) + DaysBeforeMonth(ym, mn) + d - 1

\* The local year, 0-based month, day of the month and hour of a time value.
DateFields(t) ==
  LET day == t \div msPerDay
      y == CHOOSE yy \in CalendarYears :
             DaysBeforeYear(yy) <= day /\ day < DaysBeforeYear(yy + 1)
      inYear == day - DaysBeforeYear(y)
      m == CHOOSE mm \in 0..11 :
             DaysBeforeMonth(y, mm) <= inYear /\ inYear < DaysBeforeMonth(y, mm + 1)
  IN  [year |-> y, month |-> m, date |-> inYear - DaysBeforeMonth(y, m) + 1,
       hour |-> t % msPerDay]

\* The time value of calendar fields; an overflowing month or date carries.
MakeTime(f) == MakeDay(f.year, f.month, f.date) * msPerDay + f.hour

\* lines 135-136: contractStart
contractStartOf(renewsOn) ==
  LET f == DateFields(renewsOn)
  IN  MakeTime([f EXCEPT !.year = @ - 1])

\* lines 138-140: the Date contractStart.setFullYear(...) produced is read
\* back (a 29 February of a common year has become 1 March) and moved by
\* q * 3 months.
trueUpMilestoneOf(contractStart, q) ==
  LET f == DateFields(contractStart)
  IN  MakeTime([f EXCEPT !.month = @ + q * 3])

\* lines 137-141
trueUpMilestonesOf(renewsOn) ==
  [q \in 1..4 |-> trueUpMilestoneOf(contractStartOf(renewsOn), q)]

\* find() from the end of the array: the last milestone at or after now.
nextTrueUpDateLast(milestones, renewsOn, now) ==
  LET hits == {q \in 1..Len(milestones) : milestones[q] >= now}
  IN  IF hits = {} THEN renewsOn
      ELSE milestones[CHOOSE q \in hits : \A r \in hits : r <= q]

\* line 142: find() returns the element of lowest index that passes, ?? the
\* renewal date.
nextTrueUpDateOf(milestones, renewsOn, now) ==
  LET hits == {q \in 1..Len(milestones) : milestones[q] >= now}
  IN  IF hits = {} THEN renewsOn
      ELSE milestones[CHOOSE q \in hits : \A r \in hits : q <= r]

\* The divisions a render performs, with the denominator each one uses.
pageDivisions(st) ==
  {[ratio |-> "remainingPool / totalPool", denominator |-> st.totalPool]}
  \cup (IF st.averageDailySpend > 0
        THEN {[ratio |-> "remainingPool / averageDailySpend",
               denominator |-> st.averageDailySpend]}
        ELSE {})

\* lines 338, 341: the denominator of the acceptance ratio.
acceptanceDenominator(userStats) == Max(1, userStats.linesGenerated)

\* Everything one render derives from the stats (lines 112-128, 143, 186-204).
renderPage(st) ==
  LET daysUntilRenewal    == daysUntilRenewalOf(st.renewsOn, st.now)
      daysUntilRunOut     == daysUntilRunOutOf(st.remainingPool, st.averageDailySpend)
      projectedRunOutDate == projectedRunOutDateOf(daysUntilRunOut, st.now)
  IN  [remainingPercent      |-> remainingPercentOf(st.remainingPool, st.totalPool),
       daysUntilRenewal      |-> daysUntilRenewal,
       daysUntilRunOut       |-> daysUntilRunOut,
       projectedRunOutDate   |-> projectedRunOutDate,
       projectedOverageSpend |-> projectedOverageSpendOf(st.averageDailySpend,
                                                         daysUntilRenewal,
                                                         st.remainingPool),
       trueUpMilestones      |-> trueUpMilestonesOf(st.renewsOn),
       nextTrueUpDate        |-> nextTrueUpDateOf(trueUpMilestonesOf(st.renewsOn),
                                                  st.renewsOn, st.now),
       projectedSeatsAdded   |-> Max(0, st.activeUsers - st.licenseCount),
       runOutText            |-> IF projectedRunOutDate # Null THEN "date" ELSE "dash",
       divisions             |-> pageDivisions(st)]

PoolTotals     == {0, 1, 3, 1000000}
PoolRemainings == {0, 1, 2, 732450, 1000000}
DailySpends    == {0, 1, 3, 4000}
RenewalOffsets == {-25, 0, 1, 24, 25, 432, 2640, 5832}
Seats          == {<<1562, 1442>>, <<10, 12>>}
Now            == 1000

InitPage == InitOthersChart /\ InitOthersFn /\ InitOthersPrng /\ InitOthersPage

\* await getUsageStats(): any pool summary a data source may return.
GetUsageStats ==
  /\ stats = Null
  /\ \E tp \in PoolTotals, rp \in PoolRemainings, ads \in DailySpends,
        off \in RenewalOffsets, seats \in Seats :
       stats' = [activeUsers |-> seats[1], licenseCount |-> seats[2],
                 totalPool |-> tp, remainingPool |-> rp,
                 renewsOn |-> Now + off, now |-> Now,
                 averageDailySpend |-> ads]
  /\ UNCHANGED <<page, chartVars, fnVars, prngVars>>

\* The rest of AdminUsagePage.
RenderPage ==
  /\ stats # Null
  /\ page = Null
  /\ page' = renderPage(stats)
  /\ UNCHANGED <<stats, chartVars, fnVars, prngVars>>

NextPage == GetUsageStats \/ RenderPage

SpecPage == InitPage /\ [][NextPage]_vars

\* C5: for all pool summaries, totalPool = 0 included, remainingPercent is a
\* number in [0,100] and projectedOverageSpend is >= 0.
C5_PercentAndOverageInRange ==
  page # Null =>
    /\ page.remainingPercent.kind = "num"
    /\ 0 <= page.remainingPercent.v
    /\ page.remainingPercent.v <= 100
    /\ page.projectedOverageSpend >= 0

\* C6: every ratio whose denominator can be zero is guarded (percent of
\* total, acceptance ratio, run-out days): no division by zero is performed
\* and no invalid number is produced.
C6_RatiosGuarded ==
  /\ page # Null =>
       /\ \A dv \in page.divisions : dv.denominator # 0
       /\ page.remainingPercent.kind # "NaN"
       /\ page.daysUntilRunOut.kind # "NaN"
  /\ selectedUserStats # Null => acceptanceDenominator(selectedUserStats) # 0

\* C10: daysUntilRunOut is ceil(remainingPool / averageDailySpend) when
\* averageDailySpend > 0; when it is 0, daysUntilRunOut is the unbounded
\* sentinel and the run-out date is null, rendered as a dash: a date is
\* shown if and only if averageDailySpend > 0.
C10_RunOutDays ==
  page # Null =>
    /\ stats.averageDailySpend > 0 =>
         /\ page.daysUntilRunOut.kind = "num"
         /\ page.daysUntilRunOut.v * stats.averageDailySpend >= stats.remainingPool
         /\ (page.daysUntilRunOut.v - 1) * stats.averageDailySpend < stats.remainingPool
         /\ page.projectedRunOutDate
              = [time |-> stats.now + page.daysUntilRunOut.v * msPerDay]
    /\ stats.averageDailySpend = 0 =>
         /\ page.daysUntilRunOut = Infinity
         /\ page.projectedRunOutDate = Null
    /\ (page.runOutText = "date") <=> (stats.averageDailySpend > 0)
    /\ (page.runOutText = "dash") <=> (stats.averageDailySpend = 0)

\* A render with a daily spend that does not divide the remaining pool.
C10_Witness ==
  /\ page # Null
  /\ stats.averageDailySpend = 4000
  /\ stats.remainingPool = 732450
  /\ page.daysUntilRunOut = Num(184)
  /\ page.runOutText = "date"

\* C11: with contract start = renewal date minus one year and the four
\* milestones at contract start + 3, 6, 9 and 12 months, the next true-up
\* date is the earliest milestone that is >= now; if every milestone is
\* before now, it is the renewal date itself.
C11_NextTrueUp ==
  page # Null =>
    LET ms  == page.trueUpMilestones
        due == {q \in 1..4 : ms[q] >= stats.now}
    IN  /\ Len(ms) = 4
        /\ ms = [q \in 1..4 |->
                   trueUpMilestoneOf(contractStartOf(stats.renewsOn), q)]
        /\ due # {} =>
             /\ \E q \in due : page.nextTrueUpDate = ms[q]
             /\ \A q \in due : page.nextTrueUpDate <= ms[q]
        /\ due = {} => page.nextTrueUpDate = stats.renewsOn

\* A render with now after the first milestone and before the later ones.
C11_Witness ==
  /\ page # Null
  /\ page.trueUpMilestones[1] < stats.now
  /\ stats.now < page.trueUpMilestones[2]
  /\ page.trueUpMilestones[2] < page.trueUpMilestones[3]
  /\ page.trueUpMilestones[3] < page.trueUpMilestones[4]
  /\ page.nextTrueUpDate = page.trueUpMilestones[2]

(***************************************************************************)
(* The chart components: state, load effect, handlers                      *)
(***************************************************************************)
MaxLoads == 2     \* load() calls of one component instance
MaxBar   == 2     \* the user clicks one of the last MaxBar bars
MaxRow   == 1     \* the user clicks one of the first MaxRow table rows

UsageWindows == {7, 14, 30, 60, 90}
DistWindows  == {7, 14, 30}
WindowsOf(c) == IF c = "UsageChart" THEN UsageWindows ELSE DistWindows

FetchProps == {0, 1}         \* 0: no override; 1: an override function
InitialDays == {30}          \* the initialDays prop: its default
MockTapes  == {[a |-> 499, b |-> 377]}
ClickTapes == {[a |-> 999, b |-> 377]}

\* Records a fetchDistribution override may resolve with, besides [].
OddRows ==
  << [bucket |-> LabelLast, users |-> 120],
     [bucket |-> LabelTo, users |-> 2],
     [bucket |-> Label2040, users |-> 0] >>

\* What an override may resolve with for window d.
FetchResults(c, d) ==
  IF c = "UsageChart"
  THEN {<<>>, generateMockData(d, Today, UtcNoon, [a |-> 999, b |-> 1])}
  ELSE {<<>>, OddRows}

\* What the built-in generator returns for window d.
MockResult(c, d, tape) ==
  IF c = "UsageChart" THEN generateMockData(d, Today, UtcNoon, tape)
  ELSE generateMockDistribution(d, tape)

\* An effect whose cleanup leaves the flag of the superseded load alone.
cleanupSkipped(ls) == ls

\* The cleanup of the effect that started the latest load: cancelled = true.
cleanup(ls) ==
  IF Len(ls) = 0 THEN ls
  ELSE [ls EXCEPT ![Len(ls)].cancelled = TRUE]

\* The load effect (re)runs for window d and override f: the cleanup of the
\* previous run, then load().  Without an override load() never awaits and
\* runs to its end at once; with one it stops at the await.
RunLoadEffect(d, f) ==
  LET ls == cleanup(loads)
  IN  IF f = 0
      THEN \E tape \in MockTapes :
             /\ loads' = Append(ls, [days |-> d, fetch |-> f, cancelled |-> FALSE,
                                     status |-> "committed"])
             /\ data' = MockResult(chart, d, tape)
             /\ dataFrom' = Len(ls) + 1
             /\ loading' = FALSE
      ELSE /\ loads' = Append(ls, [days |-> d, fetch |-> f, cancelled |-> FALSE,
                                   status |-> "pending"])
           /\ loading' = TRUE
           /\ UNCHANGED <<data, dataFrom>>

\* The effect of lines 100-107.
ClearSelection ==
  /\ selectedBucket' = NullString
  /\ selectedBucketTotal' = 0
  /\ selectedUsers' = <<>>
  /\ selectedUser' = Null
  /\ selectedUserStats' = Null

selectionVars == <<selectedBucket, selectedBucketTotal, selectedUsers,
                   selectedUser, selectedUserStats>>

Init ==
  /\ chart \in {"UsageChart", "SpendDistributionChart"}
  /\ phase = "constructed"
  /\ fetchProp \in FetchProps
  /\ days \in InitialDays
  /\ view = "models"
  /\ data = <<>> /\ loading = FALSE /\ loads = <<>> /\ dataFrom = 0
  /\ selectedBucket = NullString /\ selectedBucketTotal = 0
  /\ selectedUsers = <<>> /\ selectedUser = Null /\ selectedUserStats = Null
  /\ InitOthersFn /\ InitOthersPrng /\ InitOthersPage

\* The effects of the first commit.
Mount ==
  /\ phase = "constructed"
  /\ phase' = "mounted"
  /\ RunLoadEffect(days, fetchProp)
  /\ IF chart = "SpendDistributionChart" THEN ClearSelection
     ELSE UNCHANGED selectionVars
  /\ UNCHANGED <<chart, fetchProp, days, view, fnVars, prngVars, pageVars>>

\* A click on a window button: setDays(d), the re-render and its effects.
SetDays ==
  /\ phase = "mounted"
  /\ Len(loads) < MaxLoads
  /\ \E d \in WindowsOf(chart) :
       /\ d # days
       /\ days' = d
       /\ RunLoadEffect(d, fetchProp)
  /\ IF chart = "SpendDistributionChart" THEN ClearSelection
     ELSE UNCHANGED selectionVars
  /\ UNCHANGED <<chart, phase, fetchProp, view, fnVars, prngVars, pageVars>>

\* The parent passes another fetch override: the load effect runs again.
ChangeFetchProp ==
  /\ phase = "mounted"
  /\ Len(loads) < MaxLoads
  /\ \E f \in FetchProps :
       /\ f # fetchProp
       /\ fetchProp' = f
       /\ RunLoadEffect(days, f)
  /\ UNCHANGED <<chart, phase, days, view, selectionVars, fnVars, prngVars, pageVars>>

\* The awaited fetch of load k resolves: lines 65-69 / 88-92 after the await.
FetchResolve ==
  /\ \E k \in 1..Len(loads) :
       /\ loads[k].status = "pending"
       /\ \E result \in FetchResults(chart, loads[k].days) :
            IF ~loads[k].cancelled
            THEN /\ loads' = [loads EXCEPT ![k].status =
                                IF k = Len(loads) THEN "committed" ELSE "committedStale"]
                 /\ data' = result /\ dataFrom' = k /\ loading' = FALSE
            ELSE /\ loads' = [loads EXCEPT ![k].status = "discarded"]
                 /\ UNCHANGED <<data, dataFrom, loading>>
  /\ UNCHANGED <<chart, phase, fetchProp, days, view, selectionVars,
                 fnVars, prngVars, pageVars>>

\* A finally block that calls setLoading(false) whatever cancelled is.
FetchRejectAlwaysClears ==
  /\ \E k \in 1..Len(loads) :
       /\ loads[k].status = "pending"
       /\ loads' = [loads EXCEPT ![k].status = "rejected"]
       /\ loading' = FALSE
  /\ UNCHANGED <<chart, phase, fetchProp, days, view, data, dataFrom,
                 selectionVars, fnVars, prngVars, pageVars>>

\* The awaited fetch of load k rejects: only the finally block runs.
FetchReject ==
  /\ \E k \in 1..Len(loads) :
       /\ loads[k].status = "pending"
       /\ loads' = [loads EXCEPT ![k].status = "rejected"]
       /\ IF ~loads[k].cancelled
          THEN loading' = FALSE
          ELSE UNCHANGED loading
  /\ UNCHANGED <<chart, phase, fetchProp, days, view, data, dataFrom,
                 selectionVars, fnVars, prngVars, pageVars>>

\* UsageChart: a click on "Total" / "By model".
SetView ==
  /\ phase = "mounted"
  /\ chart = "UsageChart"
  /\ view' = (IF view = "models" THEN "total" ELSE "models")
  /\ UNCHANGED <<chart, phase, fetchProp, days, data, loading, loads, dataFrom,
                 selectionVars, fnVars, prngVars, pageVars>>

\* handleBucketClick without its last two lines: the selected user stays.
BucketClickKeepsUser ==
  /\ phase = "mounted"
  /\ chart = "SpendDistributionChart"
  /\ \E i \in (Len(data) - Min(Len(data), MaxBar) + 1)..Len(data),
        tape \in ClickTapes :
       /\ selectedBucket' = data[i].bucket
       /\ selectedBucketTotal' = data[i].users
       /\ selectedUsers' = generateUsersForBucket(data[i].bucket, data[i].users, tape).value
  /\ UNCHANGED <<chart, phase, fetchProp, days, view, data, loading, loads,
                 dataFrom, selectedUser, selectedUserStats,
                 fnVars, prngVars, pageVars>>

\* SpendDistributionChart: a click on a bar, handleBucketClick (lines 143-149).
BucketClick ==
  /\ phase = "mounted"
  /\ chart = "SpendDistributionChart"
  /\ \E i \in (Len(data) - Min(Len(data), MaxBar) + 1)..Len(data),
        tape \in ClickTapes :
       /\ selectedBucket' = data[i].bucket
       /\ selectedBucketTotal' = data[i].users
       /\ selectedUsers' = generateUsersForBucket(data[i].bucket, data[i].users, tape).value
       /\ selectedUser' = Null
       /\ selectedUserStats' = Null
  /\ UNCHANGED <<chart, phase, fetchProp, days, view, data, loading, loads,
                 dataFrom, fnVars, prngVars, pageVars>>

\* SpendDistributionChart: a click on a table row (lines 301-304).
UserRowClick ==
  /\ phase = "mounted"
  /\ chart = "SpendDistributionChart"
  /\ Truthy(selectedBucket)
  /\ \E i \in 1..Min(Len(selectedUsers), MaxRow) :
       /\ selectedUser' = selectedUsers[i]
       /\ selectedUserStats' = generateUserStats(selectedUsers[i].email,
                                                 selectedUsers[i].spend,
                                                 selectedBucket).out
  /\ UNCHANGED <<chart, phase, fetchProp, days, view, data, loading, loads,
                 dataFrom, selectedBucket, selectedBucketTotal, selectedUsers,
                 fnVars, prngVars, pageVars>>

\* SpendDistributionChart: a click on "Clear" (line 389).
ClearUserClick ==
  /\ phase = "mounted"
  /\ chart = "SpendDistributionChart"
  /\ Truthy(selectedBucket)
  /\ selectedUser # Null
  /\ selectedUserStats # Null
  /\ selectedUser' = Null
  /\ selectedUserStats' = Null
  /\ UNCHANGED <<chart, phase, fetchProp, days, view, data, loading, loads,
                 dataFrom, selectedBucket, selectedBucketTotal, selectedUsers,
                 fnVars, prngVars, pageVars>>

Next ==
  \/ Mount
  \/ SetDays
  \/ ChangeFetchProp
  \/ FetchResolve
  \/ FetchReject
  \/ SetView
  \/ BucketClick
  \/ UserRowClick
  \/ ClearUserClick

Spec == Init /\ [][Next]_vars

(***************************************************************************)
(* Properties of the chart components (Spec)                               *)
(***************************************************************************)
NoPendingLoad == \A k \in 1..Len(loads) : loads[k].status # "pending"

\* No result of a superseded load was committed, and data is what the load
\* named by dataFrom committed.
NoStaleCommit ==
  /\ \A k \in 1..Len(loads) : loads[k].status # "committedStale"
  /\ dataFrom # 0 => /\ dataFrom \in 1..Len(loads)
                     /\ loads[dataFrom].status = "committed"

\* C1 as stated: last-request-wins in both charts.  The result of a fetch
\* issued for an earlier selection is never committed to data once a newer
\* selection has been made, and after all fetches have settled data is the
\* result of the fetch issued for the most recent selection.
C1_LastRequestWinsOriginal ==
  /\ NoStaleCommit
  /\ (phase = "mounted" /\ NoPendingLoad) =>
       /\ dataFrom = Len(loads)
       /\ loads[dataFrom].days = days

\* C1 amended: as above, the final state holding when the fetch issued for
\* the most recent selection did not reject; when it rejected, data is still
\* the last result committed before it.
C1_LastRequestWins ==
  /\ NoStaleCommit
  /\ (phase = "mounted" /\ NoPendingLoad /\ loads[Len(loads)].status # "rejected") =>
       /\ dataFrom = Len(loads)
       /\ loads[dataFrom].days = days
  /\ (phase = "mounted" /\ loads[Len(loads)].status = "rejected") =>
       dataFrom < Len(loads)

\* Every fetch has settled, one of them for a superseded selection whose
\* result was discarded, and data is the result for the latest selection.
C1_Witness ==
  /\ phase = "mounted"
  /\ NoPendingLoad
  /\ Len(loads) >= 2
  /\ \E k \in 1..(Len(loads) - 1) :
       loads[k].status = "discarded" /\ loads[k].days # days
  /\ loads[Len(loads)].fetch # 0
  /\ dataFrom = Len(loads)

\* The drill-down selection is in its initial, empty state.
SelectionCleared ==
  /\ selectedBucket = NullString
  /\ selectedBucketTotal = 0
  /\ selectedUsers = <<>>
  /\ selectedUser = Null
  /\ selectedUserStats = Null

\* A step that reloads the distribution data: a load starts, or the result
\* of one is committed to data.
DataReloads == Len(loads') > Len(loads) \/ dataFrom' # dataFrom

\* C15: in SpendDistributionChart the selection is cleared when days change
\* or data reloads: after any change of the selected window and after any
\* reload of the distribution data (one triggered by a new fetchDistribution
\* override with the same days included), selectedBucket is null,
\* selectedBucketTotal is 0, selectedUsers is empty, and selectedUser and
\* selectedUserStats are null.
C15_SelectionClearedOnReload ==
  [][(chart = "SpendDistributionChart" /\ phase = "mounted"
      /\ (days' # days \/ DataReloads))
     => SelectionCleared']_vars

\* C16: the loading flag tracks only the latest request, in both charts:
\* once the most recently issued load has settled, its fetch resolved or
\* rejected, loading is false; and while the newest load is in flight
\* loading stays true, the completion of a superseded load not setting it to
\* false.
C16_LoadingTracksLatest ==
  phase = "mounted" =>
    /\ loads[Len(loads)].status # "pending" => loading = FALSE
    /\ loads[Len(loads)].status = "pending" => loading = TRUE

\* A superseded load has completed while the newest load is still in flight.
C16_Witness ==
  /\ phase = "mounted"
  /\ Len(loads) >= 2
  /\ loads[Len(loads)].status = "pending"
  /\ \E k \in 1..(Len(loads) - 1) :
       /\ loads[k].cancelled
       /\ loads[k].fetch # 0
       /\ loads[k].status \in {"discarded", "rejected"}
  /\ loading = TRUE

\* C17: the drill-down selection of SpendDistributionChart is hierarchically
\* consistent in every reachable state: selectedUser is null if and only if
\* selectedUserStats is null, and when selectedUser is non-null,
\* selectedBucket is non-null, selectedUser is an element of selectedUsers,
\* and selectedUserStats equals generateUserStats(selectedUser.email,
\* selectedUser.spend, selectedBucket).
C17_SelectionHierarchy ==
  chart = "SpendDistributionChart" =>
    /\ (selectedUser = Null) <=> (selectedUserStats = Null)
    /\ selectedUser # Null =>
         /\ selectedBucket # NullString
         /\ \E i \in 1..Len(selectedUsers) : selectedUsers[i] = selectedUser
         /\ selectedUserStats = generateUserStats(selectedUser.email,
                                                  selectedUser.spend,
                                                  selectedBucket).out

\* A user of the selected bucket is selected and its stats are shown.
C17_Witness ==
  /\ chart = "SpendDistributionChart"
  /\ selectedBucket # NullString
  /\ selectedUser # Null
  /\ selectedUserStats # Null
  /\ selectedUsers[1] = selectedUser
  /\ selectedUserStats.agentRequests > 0

\* C18: in every reachable state of SpendDistributionChart with a bucket
\* selected, the number of synthetic users listed does not exceed the
\* selected bucket's total ("Showing N of M users" has N <= M), a bucket
\* whose count is 0 included.
C18_ShownWithinTotal ==
  (chart = "SpendDistributionChart" /\ Truthy(selectedBucket)) =>
    Len(selectedUsers) <= selectedBucketTotal

\* C19: in every reachable state of SpendDistributionChart, while an
\* overriding fetchDistribution is in flight after a window change and after
\* it rejects included, a non-null selectedBucket is a bucket of the data
\* displayed and selectedBucketTotal is that bucket's users count in data,
\* and the data displayed is the data for the selected window.
C19_SelectionAndDataCurrent ==
  (chart = "SpendDistributionChart" /\ phase = "mounted") =>
    /\ selectedBucket # NullString =>
         \E i \in 1..Len(data) :
           /\ data[i].bucket = selectedBucket
           /\ data[i].users = selectedBucketTotal
    /\ dataFrom # 0 => loads[dataFrom].days = days

=============================================================================
